---------------------------- MODULE Spec2Model ----------------------------
(***************************************************************************)
(* A model of burnett/spectral_clustering.py: the class                    *)
(* ProteinStuctureEmbeddings, its fields, and one action per method.       *)
(*                                                                         *)
(* Conventions.                                                            *)
(*  - A Python str is a sequence of one-character strings, so that         *)
(*    str.split, str.lower and '+' are computed and not assumed.           *)
(*  - None is the empty tuple <<>> and a value v that may be None is <<v>>.*)
(*  - A float score is an integer number of tenths (0.8 is 8, 1.0 is 10);  *)
(*    NaN is the value NaN below.                                          *)
(*  - A DataFrame is a record of its index, its columns and its cells by   *)
(*    position, so that duplicate labels are representable.                *)
(*  - An exception leaving a method is recorded in call.err; the fields    *)
(*    assigned before the raise keep their new values.                     *)
(***************************************************************************)
EXTENDS Integers, Sequences, FiniteSets, TLC

VARIABLES
    species_order,         \* self.species_order
    map_files,             \* the files <species>_pid_protein_name.csv of self.map_dir
    alignment,             \* the rows of the file self.alignment_fn
    pid_mappings,          \* self.pid_mappings
    total_gene_names,      \* self.total_gene_names
    species_gene_index,    \* self.species_gene_index
    simi_matrix,           \* self.simi_matrix
    frame_simi_matrix,     \* the local simi_matrix of the last get_simi_matrix frame
    labels,                \* self.labels
    protein_cluster,       \* self.protein_cluster
    structure_embeddings,  \* self.structure_embeddings
    out_files,             \* the files written into output_dir
    stdout,                \* what print() has written
    call,                  \* the last method call: its name, argument and exception
    ret                    \* the value the last call returned (None when it raised)

vars == <<species_order, map_files, alignment, pid_mappings, total_gene_names,
          species_gene_index, simi_matrix, frame_simi_matrix, labels,
          protein_cluster, structure_embeddings, out_files, stdout, call, ret>>

-----------------------------------------------------------------------------
(* Bounds of the model. *)

MaxSpecies == 2
MaxGenes == 2
MaxRows == 2
MaxProteins == 3
MaxClusters == 2
MaxEvaluations == 1

-----------------------------------------------------------------------------
(* Python values. *)

None == <<>>
Some(v) == <<v>>
NoError == "none"

\* float('nan'), as pandas holds a missing cell
NaN == -1

\* The characters in use, in code-point order (' ' 32, '.' 46, '1' 49,
\* 'A'.. 65.., '_' 95, 'a'.. 97..).
Alphabet == <<" ", ".", "1", "A", "B", "C", "_", "a", "b", "c", "w", "x", "y", "z">>

Ord(c) == CHOOSE i \in 1..Len(Alphabet) : Alphabet[i] = c

\* str.__lt__: lexicographic by code point
StrLess(s, t) ==
    \E k \in 0..Len(s) :
        /\ k <= Len(t)
        /\ \A i \in 1..k : s[i] = t[i]
        /\ \/ k = Len(s) /\ k < Len(t)
           \/ k < Len(s) /\ k < Len(t) /\ Ord(s[k + 1]) < Ord(t[k + 1])

\* str.lower on one character
LowerChar(c) ==
    CASE c = "A" -> "a"
      [] c = "B" -> "b"
      [] c = "C" -> "c"
      [] OTHER -> c

\* Series.str.lower
Lower(s) == [i \in 1..Len(s) |-> LowerChar(s[i])]

\* Series.str.split(sep, expand=True)[0]: the text before the first sep
RECURSIVE SplitFirst(_, _)
SplitFirst(s, sep) ==
    IF s = <<>> \/ Head(s) = sep THEN <<>>
    ELSE <<Head(s)>> \o SplitFirst(Tail(s), sep)

\* sorted(list): insertion of x into a sorted list, after its equals
RECURSIVE InsertSorted(_, _)
InsertSorted(x, sorted) ==
    IF sorted = <<>> THEN <<x>>
    ELSE IF StrLess(x, Head(sorted)) THEN <<x>> \o sorted
    ELSE <<Head(sorted)>> \o InsertSorted(x, Tail(sorted))

RECURSIVE Sorted(_)
Sorted(list) ==
    IF list = <<>> THEN <<>>
    ELSE InsertSorted(list[Len(list)], Sorted(SubSeq(list, 1, Len(list) - 1)))

Range(f) == {f[x] : x \in DOMAIN f}

\* a module that also binds protein_cluster at its top level
ModuleGlobalsWithProteinCluster ==
    {"sys", "os", "importlib", "argparse", "Optional", "np", "pd",
     "SpectralClustering", "spectral_embedding", "get_module",
     "saturn_model_path", "saturn_model_module", "ProteinStuctureEmbeddings",
     "protein_cluster"}

\* The names bound in the module's global namespace when a method runs: the
\* imports, get_module, the two saturn_* assignments and the class. A bare
\* name that is neither a local nor one of these raises NameError.
ModuleGlobals ==
    {"sys", "os", "importlib", "argparse", "Optional", "np", "pd",
     "SpectralClustering", "spectral_embedding", "get_module",
     "saturn_model_path", "saturn_model_module", "ProteinStuctureEmbeddings"}

-----------------------------------------------------------------------------
(* read_mapping *)

\* a file that is not there; a file that is there is Some(its rows)
NoFile == None

\* a read_mapping that keeps the whole symbol field as the gene name
MappingFrameUnsplit(table, species_name) ==
    [i \in 1..Len(table) |->
        [pid |-> Lower(table[i].pid),
         symbol |-> table[i].symbol \o <<"_">> \o species_name,
         gene_name |-> table[i].symbol]]

\* lines 63-66: the table read from the file, with gene_name derived and
\* symbol and pid rewritten
MappingFrame(table, species_name) ==
    [i \in 1..Len(table) |->
        LET gene_name == SplitFirst(table[i].symbol, " ")
        IN  [pid |-> Lower(table[i].pid),
             symbol |-> gene_name \o <<"_">> \o species_name,
             gene_name |-> gene_name]]

\* the method, as a function of the files: the exception and the frame.
\* Line 62 raises FileNotFoundError for a missing file. For a file with a
\* header and no row, Series.str.split(' ', expand=True) is a frame with no
\* column, and its [0] on line 64 raises KeyError.
read_mapping_result(files, species_name) ==
    IF species_name \notin DOMAIN files \/ files[species_name] = NoFile
    THEN [err |-> "FileNotFoundError", mapping |-> None]
    ELSE IF files[species_name][1] = <<>>
    THEN [err |-> "KeyError", mapping |-> None]
    ELSE [err |-> NoError,
          mapping |-> Some(MappingFrame(files[species_name][1], species_name))]

\* dict assignment d[k] = v
DictSet(d, k, v) == [x \in DOMAIN d \cup {k} |-> IF x = k THEN v ELSE d[x]]


-----------------------------------------------------------------------------
(* get_species_gene_index *)

\* line 78 calls the bare name read_mapping with (self.map_dir, species).
\* The class defines read_mapping only as a method, so the name is looked up
\* among the module's globals; a function of that name and signature would
\* read the same file as the method does.
GlobalReadMapping(files, species) ==
    IF "read_mapping" \in ModuleGlobals
    THEN read_mapping_result(files, species)
    ELSE [err |-> "NameError", mapping |-> None]

\* lines 77-82, from position i of the sorted list.
\* st = [total, index, n, err]: self.total_gene_names, self.species_gene_index,
\* the local n, and the exception that ended the loop.
RECURSIVE GeneIndexLoop(_, _, _, _)
GeneIndexLoop(files, sorted_species_order, i, st) ==
    IF i > Len(sorted_species_order) THEN st
    ELSE
        LET species == sorted_species_order[i]
            r == GlobalReadMapping(files, species)
        IN  IF r.err # NoError THEN [st EXCEPT !.err = r.err]
            ELSE
                LET mapping_df == r.mapping[1]
                    gene_names == [k \in 1..Len(mapping_df) |-> mapping_df[k].gene_name]
                IN  GeneIndexLoop(files, sorted_species_order, i + 1,
                        [total |-> st.total \o gene_names,
                         index |-> DictSet(st.index, species,
                                           <<st.n, st.n + Len(gene_names)>>),
                         n |-> st.n + (st.n + Len(gene_names)),
                         err |-> NoError])

\* lines 75-83
get_species_gene_index_result(files, order, total, index) ==
    GeneIndexLoop(files, Sorted(order), 1,
                  [total |-> total, index |-> index, n |-> 0, err |-> NoError])

-----------------------------------------------------------------------------
(* The object after __init__ (lines 38-52), and the two mapping methods. *)

EmptyDict == [x \in {} |-> None]

\* every field but self.simi_matrix
ConstructedFields ==
    /\ total_gene_names = <<>>
    /\ species_gene_index = EmptyDict
    /\ pid_mappings = EmptyDict
    /\ frame_simi_matrix = None
    /\ labels = None
    /\ structure_embeddings = None
    /\ protein_cluster = None
    /\ out_files = {}
    /\ stdout = <<>>
    /\ call = [op |-> "__init__", arg |-> None, err |-> NoError]
    /\ ret = None

Constructed ==
    /\ ConstructedFields
    /\ simi_matrix = None

read_mapping(species_name) ==
    LET r == read_mapping_result(map_files, species_name)
    IN  /\ pid_mappings' = IF r.err = NoError
                           THEN DictSet(pid_mappings, species_name, r.mapping[1])
                           ELSE pid_mappings
        /\ call' = [op |-> "read_mapping", arg |-> Some(species_name), err |-> r.err]
        /\ ret' = r.mapping
        /\ UNCHANGED <<species_order, map_files, alignment, total_gene_names,
                       species_gene_index, simi_matrix, frame_simi_matrix, labels,
                       protein_cluster, structure_embeddings, out_files, stdout>>

get_species_gene_index ==
    LET st == get_species_gene_index_result(map_files, species_order,
                                            total_gene_names, species_gene_index)
    IN  /\ total_gene_names' = st.total
        /\ species_gene_index' = st.index
        /\ call' = [op |-> "get_species_gene_index", arg |-> None, err |-> st.err]
        /\ ret' = IF st.err = NoError THEN Some(<<st.total, st.index>>) ELSE None
        /\ UNCHANGED <<species_order, map_files, alignment, pid_mappings,
                       simi_matrix, frame_simi_matrix, labels, protein_cluster,
                       structure_embeddings, out_files, stdout>>

-----------------------------------------------------------------------------
(* The mapping stage: any species list and any mapping files within the    *)
(* bounds, then read_mapping and get_species_gene_index in any order.      *)

SpeciesNames == {<<"a">>, <<"b">>}

\* the species whose file ranges over every table; the other files hold at
\* most one row
FirstSpecies == <<"a">>

\* the lines of a mapping file: the columns pid and symbol
MappingRows ==
    { [pid |-> <<"A">>, symbol |-> <<"x", " ", "y">>],
      [pid |-> <<"b">>, symbol |-> <<"x", " ", "z">>],
      [pid |-> <<"b">>, symbol |-> <<"w">>],
      [pid |-> <<"A">>, symbol |-> <<" ", "x">>] }

SeqsUpTo(S, n) == UNION { [1..k -> S] : k \in 0..n }

MappingTables == SeqsUpTo(MappingRows, MaxGenes)

NoAlignment == <<>>

InitMapping ==
    /\ species_order \in SeqsUpTo(SpeciesNames, MaxSpecies)
    /\ map_files \in [SpeciesNames -> {Some(t) : t \in MappingTables} \cup {NoFile}]
    /\ \A s \in SpeciesNames \ {FirstSpecies} :
           map_files[s] # NoFile => Len(map_files[s][1]) <= 1
    /\ alignment = NoAlignment
    /\ Constructed

NextMapping ==
    \/ \E s \in SpeciesNames : read_mapping(s)
    \/ get_species_gene_index

SpecMapping == InitMapping /\ [][NextMapping]_vars


-----------------------------------------------------------------------------
(* Claims about the mapping stage. *)

Prefixes(s) == {SubSeq(s, 1, k) : k \in 0..Len(s)}

\* tok is the text of s up to its first space (all of s when it has none)
IsFirstToken(tok, s) ==
    /\ tok \in Prefixes(s)
    /\ \A i \in 1..Len(tok) : tok[i] # " "
    /\ Len(tok) = Len(s) \/ s[Len(tok) + 1] = " "

\* the mapping read_mapping stored for species S has a row per line of the file
\* and every symbol is <first token of the line's symbol>_<S>
SymbolsWellFormed(S) ==
    LET table == map_files[S][1]
        mapping == pid_mappings[S]
    IN  /\ Len(mapping) = Len(table)
        /\ \A i \in 1..Len(table) :
              \E tok \in Prefixes(table[i].symbol) :
                  /\ IsFirstToken(tok, table[i].symbol)
                  /\ mapping[i].gene_name = tok
                  /\ mapping[i].symbol = tok \o <<"_">> \o S

SameFirstToken(s, t) ==
    \E tok \in Prefixes(s) : IsFirstToken(tok, s) /\ IsFirstToken(tok, t)

SymbolsDistinct(table) ==
    \A i, j \in 1..Len(table) : i # j => table[i].symbol # table[j].symbol

\* C5, as stated: every symbol read_mapping stores for a species is
\* gene_name_species, with gene_name the first space-delimited token of the
\* input symbol, and no two rows of the stored table share a symbol, whatever
\* the (pairwise different) input symbols are.
C5_WellFormedAndUnique ==
    \A S \in DOMAIN pid_mappings :
        SymbolsDistinct(map_files[S][1]) =>
            /\ SymbolsWellFormed(S)
            /\ SymbolsDistinct(pid_mappings[S])

\* C5, amended: every symbol read_mapping stores for a species is
\* gene_name_species, with gene_name the first space-delimited token of the
\* input symbol, and two rows of the stored table share a symbol exactly when
\* their input symbols share their first token.
C5_WellFormedUniquePerToken ==
    \A S \in DOMAIN pid_mappings :
        /\ SymbolsWellFormed(S)
        /\ \A i, j \in 1..Len(pid_mappings[S]) :
              (pid_mappings[S][i].symbol = pid_mappings[S][j].symbol)
                  <=> SameFirstToken(map_files[S][1][i].symbol,
                                     map_files[S][1][j].symbol)

\* read_mapping has returned a table of two rows whose input symbols differ
\* and share their first token
C5_Witness ==
    /\ call.op = "read_mapping"
    /\ call.err = NoError
    /\ LET S == call.arg[1]
       IN  /\ S \in DOMAIN pid_mappings
           /\ ret = Some(pid_mappings[S])
           /\ Len(pid_mappings[S]) = 2
           /\ map_files[S][1][1].symbol # map_files[S][1][2].symbol
           /\ SameFirstToken(map_files[S][1][1].symbol, map_files[S][1][2].symbol)

\* every species of the list has a mapping file with at least one line
AllFilesPresent ==
    \A i \in 1..Len(species_order) :
        /\ map_files[species_order[i]] # NoFile
        /\ map_files[species_order[i]][1] # <<>>

NoRepeatedSpecies ==
    \A i, j \in 1..Len(species_order) :
        i # j => species_order[i] # species_order[j]

\* C2: after get_species_gene_index has run over a list of different species
\* whose files exist, the recorded ranges, taken in sorted species order, start
\* at 0, each end at the next one's start, are each as long as the species'
\* gene list, and end at len(total_gene_names).
C2_RangesPartition ==
    (call.op = "get_species_gene_index" /\ AllFilesPresent /\ NoRepeatedSpecies) =>
        LET sorted == Sorted(species_order)
            idx == species_gene_index
        IN  /\ call.err = NoError
            /\ \A i \in 1..Len(sorted) : sorted[i] \in DOMAIN idx
            /\ \A i \in 1..Len(sorted) :
                  /\ idx[sorted[i]][1] =
                        (IF i = 1 THEN 0 ELSE idx[sorted[i - 1]][2])
                  /\ idx[sorted[i]][2] - idx[sorted[i]][1] =
                        Len(map_files[sorted[i]][1])
            /\ Len(total_gene_names) =
                  (IF sorted = <<>> THEN 0 ELSE idx[sorted[Len(sorted)]][2])


-----------------------------------------------------------------------------
(* get_simi_matrix *)

\* DataFrame.min(axis=1) over the columns TM1 and TM2: NaN is skipped
RowMin(tm1, tm2) ==
    IF tm1 = NaN THEN tm2
    ELSE IF tm2 = NaN THEN tm1
    ELSE IF tm1 < tm2 THEN tm1 ELSE tm2

\* lines 93-98: the frame with PDBchain2 cut at its first '.', and small_TM
SmallTMFrame(rows) ==
    [k \in 1..Len(rows) |->
        [PDBchain1 |-> rows[k].PDBchain1,
         PDBchain2 |-> SplitFirst(rows[k].PDBchain2, "."),
         small_TM |-> RowMin(rows[k].TM1, rows[k].TM2)]]

\* the labels of a set in sorted order, as pivot and Index.union leave them
RECURSIVE SortedLabels(_)
SortedLabels(S) ==
    IF S = {} THEN <<>>
    ELSE LET least == CHOOSE x \in S : \A y \in S \ {x} : StrLess(x, y)
         IN  <<least>> \o SortedLabels(S \ {least})

Cells(index, columns) == (1..Len(index)) \X (1..Len(columns))

\* DataFrame.pivot raises ValueError when two rows share (index, columns)
PivotHasDuplicates(df) ==
    \E k, l \in 1..Len(df) :
        /\ k # l
        /\ df[k].PDBchain1 = df[l].PDBchain1
        /\ df[k].PDBchain2 = df[l].PDBchain2

\* line 101: df.pivot(index='PDBchain1', columns='PDBchain2', values='small_TM')
Pivot(df) ==
    LET index == SortedLabels({df[k].PDBchain1 : k \in 1..Len(df)})
        columns == SortedLabels({df[k].PDBchain2 : k \in 1..Len(df)})
    IN  [index |-> index,
         columns |-> columns,
         cell |-> [p \in Cells(index, columns) |->
                     LET hit == {k \in 1..Len(df) :
                                    /\ df[k].PDBchain1 = index[p[1]]
                                    /\ df[k].PDBchain2 = columns[p[2]]}
                     IN  IF hit = {} THEN NaN
                         ELSE df[CHOOSE k \in hit : TRUE].small_TM]]

\* DataFrame.T
Transpose(m) ==
    [index |-> m.columns,
     columns |-> m.index,
     cell |-> [p \in Cells(m.columns, m.index) |-> m.cell[<<p[2], p[1]>>]]]

Position(axis, l) == CHOOSE i \in 1..Len(axis) : axis[i] = l

\* the cell at labels (r, c) after reindexing: NaN where m has no such cell
CellAt(m, r, c) ==
    IF r \in Range(m.index) /\ c \in Range(m.columns)
    THEN m.cell[<<Position(m.index, r), Position(m.columns, c)>>]
    ELSE NaN

\* DataFrame.combine_first: over the union of the labels, the cell of a where
\* it is not NaN, else the cell of b
CombineFirst(a, b) ==
    LET index == SortedLabels(Range(a.index) \cup Range(b.index))
        columns == SortedLabels(Range(a.columns) \cup Range(b.columns))
    IN  [index |-> index,
         columns |-> columns,
         cell |-> [p \in Cells(index, columns) |->
                     LET v == CellAt(a, index[p[1]], columns[p[2]])
                     IN  IF v # NaN THEN v
                         ELSE CellAt(b, index[p[1]], columns[p[2]])]]

\* a fillna that fills with 0 whatever value is asked for
FillNaZero(m, value) ==
    [m EXCEPT !.cell = [p \in DOMAIN m.cell |->
                           IF m.cell[p] = NaN THEN 0 ELSE m.cell[p]]]

\* DataFrame.fillna(value)
FillNa(m, value) ==
    [m EXCEPT !.cell = [p \in DOMAIN m.cell |->
                           IF m.cell[p] = NaN THEN value ELSE m.cell[p]]]

\* 1.0, in tenths
One == 10

\* lines 92-104: the exception, or the local simi_matrix after line 104.
\* For a file with no row, the [0] of line 93 raises KeyError, as on line 64.
BuildSimiMatrix(rows) ==
    LET df == SmallTMFrame(rows)
    IN  IF rows = <<>>
        THEN [err |-> "KeyError", matrix |-> None]
        ELSE IF PivotHasDuplicates(df)
        THEN [err |-> "ValueError", matrix |-> None]
        ELSE LET pivoted == Pivot(df)
             IN  [err |-> NoError,
                  matrix |-> Some(FillNa(CombineFirst(pivoted, Transpose(pivoted)),
                                         One))]

\* line 109 evaluates self.pid_mappings[species_name] as a condition.
\* species_name is neither a parameter nor a local, so it is a global lookup;
\* were it bound, the subscript raises KeyError for a species with no stored
\* mapping and the condition raises ValueError for a stored one (a DataFrame
\* has no truth value). Lines 110-115 are reached in no case.
MappingCondition(mappings) ==
    IF "species_name" \notin ModuleGlobals THEN "NameError"
    ELSE IF DOMAIN mappings = {} THEN "KeyError"
    ELSE "ValueError"

\* lines 110-112: rename index and columns by dict(zip(mapping.pid,
\* mapping.symbol)); of two rows with one pid the later one stays in the dict
RenameLabel(mapping, l) ==
    LET hit == {k \in 1..Len(mapping) : mapping[k].pid = l}
    IN  IF hit = {} THEN l
        ELSE mapping[CHOOSE k \in hit : \A k2 \in hit : k2 <= k].symbol

Rename(m, mapping) ==
    [m EXCEPT !.index = [i \in 1..Len(m.index) |-> RenameLabel(mapping, m.index[i])],
              !.columns = [j \in 1..Len(m.columns) |->
                              RenameLabel(mapping, m.columns[j])]]

\* the method: the exception and the local simi_matrix it leaves
get_simi_matrix_result(rows, mappings) ==
    LET built == BuildSimiMatrix(rows)
    IN  IF built.err # NoError THEN built
        ELSE [err |-> MappingCondition(mappings), matrix |-> built.matrix]

get_simi_matrix ==
    LET r == get_simi_matrix_result(alignment, pid_mappings)
    IN  /\ frame_simi_matrix' = r.matrix
        /\ simi_matrix' = IF r.err = NoError THEN r.matrix ELSE simi_matrix
        /\ stdout' = IF r.err = NoError THEN Append(stdout, r.matrix) ELSE stdout
        /\ call' = [op |-> "get_simi_matrix", arg |-> None, err |-> r.err]
        /\ ret' = IF r.err = NoError THEN r.matrix ELSE None
        /\ UNCHANGED <<species_order, map_files, alignment, pid_mappings,
                       total_gene_names, species_gene_index, labels,
                       protein_cluster, structure_embeddings, out_files>>

-----------------------------------------------------------------------------
(* The similarity stage: any alignment file within the bounds. *)

Chain1Ids == {<<"A">>, <<"B">>, <<"C">>}
Chain2Ids == Chain1Ids \cup {<<"B", ".", "1">>}
TMPairs == {<<8, 9>>, <<5, 4>>, <<NaN, NaN>>}

AlignmentRows ==
    { [PDBchain1 |-> c1, PDBchain2 |-> c2, TM1 |-> tm[1], TM2 |-> tm[2]] :
        c1 \in Chain1Ids, c2 \in Chain2Ids, tm \in TMPairs }

NoMapFiles == [s \in SpeciesNames |-> NoFile]

InitSimi ==
    /\ species_order = <<>>
    /\ map_files = NoMapFiles
    /\ alignment \in SeqsUpTo(AlignmentRows, MaxRows)
    /\ Constructed

NextSimi == get_simi_matrix

SpecSimi == InitSimi /\ [][NextSimi]_vars


-----------------------------------------------------------------------------
(* Claims about the similarity matrix. get_simi_matrix raises on line 109   *)
(* in every call, so the matrix of lines 92-104 is never stored or          *)
(* returned: the claims are read on the matrix the method has built when it *)
(* raises, frame_simi_matrix.                                               *)

MatrixBuilt == call.op = "get_simi_matrix" /\ frame_simi_matrix # None

BuiltMatrix == frame_simi_matrix[1]

\* the chain ids of the alignment file: column 1 as written, column 2 up to
\* its first '.'
ChainIds ==
    {alignment[k].PDBchain1 : k \in 1..Len(alignment)}
        \cup {SplitFirst(alignment[k].PDBchain2, ".") : k \in 1..Len(alignment)}

Reported(r, c) ==
    \E k \in 1..Len(alignment) :
        /\ alignment[k].PDBchain1 = r
        /\ SplitFirst(alignment[k].PDBchain2, ".") = c

\* C1: the matrix get_simi_matrix builds is symmetric, matrix[i][j] =
\* matrix[j][i] for all labels i and j, whatever rows the alignment file holds.
C1_Symmetric ==
    MatrixBuilt =>
        \A r \in Range(BuiltMatrix.index), c \in Range(BuiltMatrix.columns) :
            CellAt(BuiltMatrix, r, c) = CellAt(BuiltMatrix, c, r)

\* C3: for every row (c1, c2, TM1, TM2) of the alignment file with two scores,
\* the matrix holds min(TM1, TM2) at [c1][c2] and at [c2][c1].
C3_MinAtBothCells ==
    MatrixBuilt =>
        \A k \in 1..Len(alignment) :
            LET row == alignment[k]
                c2 == SplitFirst(row.PDBchain2, ".")
                least == IF row.TM1 <= row.TM2 THEN row.TM1 ELSE row.TM2
            IN  (row.TM1 # NaN /\ row.TM2 # NaN) =>
                    /\ CellAt(BuiltMatrix, row.PDBchain1, c2) = least
                    /\ CellAt(BuiltMatrix, c2, row.PDBchain1) = least

-----------------------------------------------------------------------------
(* The relabelling stage: chain ids that are pids of the mapping files, the  *)
(* mappings read in any order before or after get_simi_matrix.               *)

PidChainIds == {<<"a">>, <<"b">>}

PidAlignmentRows ==
    { [PDBchain1 |-> c1, PDBchain2 |-> c2, TM1 |-> 8, TM2 |-> 9] :
        c1 \in PidChainIds, c2 \in PidChainIds }

InitRelabel ==
    /\ species_order = <<>>
    /\ map_files \in [SpeciesNames -> {Some(t) : t \in MappingTables} \cup {NoFile}]
    /\ \A s \in SpeciesNames \ {FirstSpecies} : map_files[s] = NoFile
    /\ alignment \in SeqsUpTo(PidAlignmentRows, MaxRows)
    /\ Constructed

NextRelabel ==
    \/ \E s \in SpeciesNames : read_mapping(s)
    \/ get_simi_matrix

SpecRelabel == InitRelabel /\ [][NextRelabel]_vars

HasDuplicates(axis) ==
    \E i, j \in 1..Len(axis) : i # j /\ axis[i] = axis[j]

\* a stored mapping sends two chain ids of the built matrix to one symbol
RelabelMakesDuplicates ==
    /\ MatrixBuilt
    /\ \E S \in DOMAIN pid_mappings :
          LET renamed == Rename(BuiltMatrix, pid_mappings[S])
          IN  HasDuplicates(renamed.index) \/ HasDuplicates(renamed.columns)

\* C9: when relabelling by a stored mapping gives duplicate row or column
\* labels, get_simi_matrix fails with AmbiguousMappingError and neither stores
\* nor returns a matrix.
C9_AmbiguousMappingError ==
    RelabelMakesDuplicates =>
        /\ call.err = "AmbiguousMappingError"
        /\ simi_matrix = None
        /\ ret = None


-----------------------------------------------------------------------------
(* clustering_embedding *)

\* SpectralClustering(n_clusters, affinity='precomputed').fit on N samples
\* raises or yields one label in 0..n_clusters-1 per row. With no sample, or
\* fewer samples than clusters, it always raises.
FitOutcomes(N, n_clusters) ==
    IF N = 0 \/ N < n_clusters THEN {None}
    ELSE {None} \cup {Some(l) : l \in [1..N -> 0..(n_clusters - 1)]}

FitError(N, n_clusters) ==
    IF N = 0 \/ N < n_clusters THEN "ValueError" ELSE "ArpackNoConvergence"

\* spectral_embedding(affinity, n_components, drop_first=False) raises or
\* yields one row per row of the affinity matrix, in its order, and
\* n_components columns; <<i, j>> stands for the coordinate of row i in
\* component j
EmbeddingOutcomes == {"maps", "ArpackNoConvergence"}

Maps(N, n_components) == [i \in 1..N |-> [j \in 1..n_components |-> <<i, j>>]]

\* lines 130-133
ProteinCluster(proteins_order, fitted) ==
    [i \in 1..Len(proteins_order) |->
        [symbol |-> proteins_order[i], label |-> fitted[i]]]

\* lines 125-147. self holds the fields the method reads and writes; the
\* result is self after the call, with the exception and the return value.
clustering_embedding_result(self, n_clusters, fit, emb) ==
    LET raised(obj, e) ==
            [simi_matrix |-> obj.simi_matrix, labels |-> obj.labels,
             protein_cluster |-> obj.protein_cluster,
             structure_embeddings |-> obj.structure_embeddings,
             out_files |-> obj.out_files, err |-> e, ret |-> None]
    IN  IF self.simi_matrix = None
        THEN raised(self, "AttributeError")                         \* line 125
        ELSE
          LET proteins_order == self.simi_matrix[1].index
              N == Len(proteins_order)
          IN  IF fit = None
              THEN raised(self, FitError(N, n_clusters))            \* line 127
              ELSE
                LET s133 == [self EXCEPT
                               !.labels = fit,
                               !.protein_cluster =
                                   Some(ProteinCluster(proteins_order, fit[1]))]
                IN  IF "protein_cluster" \notin ModuleGlobals
                    THEN raised(s133, "NameError")                  \* line 134
                    ELSE
                      LET s134 == [s133 EXCEPT
                                     !.out_files = @ \cup {"protein_cluster.csv"}]
                      IN  IF emb # "maps"
                          THEN raised(s134, emb)                    \* line 137
                          ELSE
                            LET maps == Maps(N, n_clusters)
                            IN  [simi_matrix |-> s134.simi_matrix,
                                 labels |-> s134.labels,
                                 protein_cluster |-> s134.protein_cluster,
                                 structure_embeddings |-> Some(maps),
                                 out_files |-> s134.out_files \cup {"maps.txt"},
                                 err |-> NoError,
                                 ret |-> Some(maps)]

RowsOf(matrix) == IF matrix = None THEN 0 ELSE Len(matrix[1].index)

clustering_embedding(n_clusters) ==
    \E fit \in FitOutcomes(RowsOf(simi_matrix), n_clusters), emb \in EmbeddingOutcomes :
        LET r == clustering_embedding_result(
                     [simi_matrix |-> simi_matrix, labels |-> labels,
                      protein_cluster |-> protein_cluster,
                      structure_embeddings |-> structure_embeddings,
                      out_files |-> out_files],
                     n_clusters, fit, emb)
        IN  /\ labels' = r.labels
            /\ protein_cluster' = r.protein_cluster
            /\ structure_embeddings' = r.structure_embeddings
            /\ out_files' = r.out_files
            /\ call' = [op |-> "clustering_embedding", arg |-> Some(n_clusters),
                        err |-> r.err]
            /\ ret' = r.ret
            /\ UNCHANGED <<species_order, map_files, alignment, pid_mappings,
                           total_gene_names, species_gene_index, simi_matrix,
                           frame_simi_matrix, stdout>>

-----------------------------------------------------------------------------
(* get_species_structure_embeddings *)

\* line 150 subscripts self.total_gene_names, a list, with the species name, a
\* str: list.__getitem__ raises TypeError for every list and every name, and
\* lines 151-153 are not reached.
get_species_structure_embeddings_result(gene_names, species_name) ==
    [err |-> "TypeError", ret |-> None]

get_species_structure_embeddings(species_name) ==
    LET r == get_species_structure_embeddings_result(total_gene_names, species_name)
    IN  /\ call' = [op |-> "get_species_structure_embeddings",
                    arg |-> Some(species_name), err |-> r.err]
        /\ ret' = r.ret
        /\ UNCHANGED <<species_order, map_files, alignment, pid_mappings,
                       total_gene_names, species_gene_index, simi_matrix,
                       frame_simi_matrix, labels, protein_cluster,
                       structure_embeddings, out_files, stdout>>

-----------------------------------------------------------------------------
(* evaluate *)

\* sklearn's check_number_of_labels, which silhouette_score and
\* davies_bouldin_score both apply: 1 < n_labels < n_samples, else ValueError
CheckNumberOfLabels(n_labels, n_samples) == 1 < n_labels /\ n_labels < n_samples

\* silhouette_score(X, labels, metric='precomputed') past the label check:
\* a score, or ValueError (a precomputed matrix with a nonzero diagonal)
SilhouetteOutcomes == {"score", "ValueError"}

\* an evaluate that catches the failure of the scores and prints nan for them
evaluate_result_swallowed(matrix, fitted, sil) ==
    [err |-> NoError, printed |-> <<"Silhouette Score", "Davies-Bouldin Index">>]

\* lines 158-161: the exception and the lines printed
evaluate_result(matrix, fitted, sil) ==
    IF matrix = None \/ fitted = None
    THEN [err |-> "ValueError", printed |-> <<>>]                   \* line 158
    ELSE IF ~CheckNumberOfLabels(Cardinality(Range(fitted[1])), Len(fitted[1]))
    THEN [err |-> "ValueError", printed |-> <<>>]                   \* line 158
    ELSE IF sil # "score"
    THEN [err |-> "ValueError", printed |-> <<>>]                   \* line 158
    ELSE [err |-> NoError,
          printed |-> <<"Silhouette Score", "Davies-Bouldin Index">>]

evaluate ==
    /\ Len(stdout) < 2 * MaxEvaluations
    /\ \E sil \in SilhouetteOutcomes :
        LET r == evaluate_result(simi_matrix, labels, sil)
        IN  /\ stdout' = stdout \o r.printed
            /\ call' = [op |-> "evaluate", arg |-> None, err |-> r.err]
            /\ ret' = None
            /\ UNCHANGED <<species_order, map_files, alignment, pid_mappings,
                           total_gene_names, species_gene_index, simi_matrix,
                           frame_simi_matrix, labels, protein_cluster,
                           structure_embeddings, out_files>>

-----------------------------------------------------------------------------
(* The clustering stage. __init__ and every call of get_simi_matrix leave    *)
(* self.simi_matrix None; the other start states hold a square frame over    *)
(* protein symbols in the attribute, as a caller of the class can assign it. *)

ProteinSymbols ==
    << <<"w", "_", "a">>, <<"x", "_", "a">>, <<"w", "_", "b">>, <<"x", "_", "b">> >>

SquareFrame(N) ==
    LET axis == SubSeq(ProteinSymbols, 1, N)
    IN  [index |-> axis,
         columns |-> axis,
         cell |-> [p \in Cells(axis, axis) |-> IF p[1] = p[2] THEN One ELSE 5]]

InitCluster ==
    /\ species_order = <<>>
    /\ map_files = NoMapFiles
    /\ alignment = NoAlignment
    /\ ConstructedFields
    /\ simi_matrix \in {None} \cup {Some(SquareFrame(N)) : N \in 0..MaxProteins}

NextCluster ==
    \/ \E n_clusters \in 1..MaxClusters : clustering_embedding(n_clusters)
    \/ \E s \in SpeciesNames : get_species_structure_embeddings(s)
    \/ evaluate

SpecCluster == InitCluster /\ [][NextCluster]_vars


-----------------------------------------------------------------------------
(* Claims about the clustering stage. *)

\* C6: a call of clustering_embedding that fails, at whichever step, has
\* written neither protein_cluster.csv nor maps.txt.
C6_FailedRunWritesNothing ==
    [][(call'.op = "clustering_embedding" /\ call'.err # NoError)
          => out_files' = out_files]_vars

\* a run that got past clustering and the cluster table, then failed, with no
\* file in the output directory
C6_Witness ==
    /\ call.op = "clustering_embedding"
    /\ call.err = "NameError"
    /\ labels # None
    /\ protein_cluster # None
    /\ Len(protein_cluster[1]) = 3
    /\ out_files = {}

LibraryErrors == {"ValueError", "ArpackNoConvergence"}

\* C7: after a call of clustering_embedding on an N x N matrix in which no
\* library step failed, the stored embedding has N rows in the order of the
\* matrix rows and n_clusters columns, and the cluster table has one label per
\* matrix row in that order.
C7_EmbeddingShape ==
    (/\ call.op = "clustering_embedding"
     /\ simi_matrix # None
     /\ call.err \notin LibraryErrors) =>
        LET axis == simi_matrix[1].index
            n_clusters == call.arg[1]
        IN  /\ call.err = NoError
            /\ protein_cluster # None
            /\ Len(protein_cluster[1]) = Len(axis)
            /\ \A i \in 1..Len(axis) :
                  /\ protein_cluster[1][i].symbol = axis[i]
                  /\ protein_cluster[1][i].label = labels[1][i]
            /\ structure_embeddings # None
            /\ Len(structure_embeddings[1]) = Len(axis)
            /\ \A i \in 1..Len(axis) :
                  /\ Len(structure_embeddings[1][i]) = n_clusters
                  /\ \A j \in 1..n_clusters :
                        structure_embeddings[1][i][j] = <<i, j>>

FewerThanTwoLabels == labels # None /\ Cardinality(Range(labels[1])) < 2

\* C8, as stated: evaluate, called when the stored labels have fewer than 2
\* distinct values, fails with InsufficientClustersError and prints no score.
C8_InsufficientClustersError ==
    [][(call'.op = "evaluate" /\ FewerThanTwoLabels)
          => (call'.err = "InsufficientClustersError" /\ stdout' = stdout)]_vars

\* C8, amended: evaluate, called when the stored labels have fewer than 2
\* distinct values, fails with the ValueError that silhouette_score raises and
\* prints no score.
C8_ValueErrorNoScore ==
    [][(call'.op = "evaluate" /\ FewerThanTwoLabels)
          => (call'.err = "ValueError" /\ stdout' = stdout)]_vars

\* evaluate has been called on three proteins that all bear one label
C8_Witness ==
    /\ call.op = "evaluate"
    /\ call.err = "ValueError"
    /\ FewerThanTwoLabels
    /\ Len(labels[1]) = 3
    /\ stdout = <<>>

\* the species of a symbol gene_name_species
EndsWith(s, suffix) ==
    /\ Len(suffix) <= Len(s)
    /\ SubSeq(s, Len(s) - Len(suffix) + 1, Len(s)) = suffix

RECURSIVE RowsOfSpecies(_, _, _)
RowsOfSpecies(table, embedding, species) ==
    IF table = <<>> THEN <<>>
    ELSE (IF EndsWith(Head(table).symbol, <<"_">> \o species)
          THEN <<Head(embedding)>> ELSE <<>>)
             \o RowsOfSpecies(Tail(table), Tail(embedding), species)

\* C10: get_species_structure_embeddings(species), called once the proteins
\* are clustered, returns the rows of the embedding whose symbol in the cluster
\* table is of that species, in the order of the embedding, and no other row.
C10_SpeciesRows ==
    (call.op = "get_species_structure_embeddings" /\ protein_cluster # None) =>
        /\ call.err = NoError
        /\ structure_embeddings # None
        /\ ret = Some(RowsOfSpecies(protein_cluster[1], structure_embeddings[1],
                                    call.arg[1]))

=============================================================================
